---- MODULE Spec2Model ----
(***************************************************************************)
(* A model of the fit / transform life cycle of the feature_engine         *)
(* transformers: DropMissingData, OneHotEncoder, CountFrequencyEncoder,     *)
(* LogTransformer, LogCpTransformer and DecisionTreeDiscretiser.            *)
(*                                                                         *)
(* The state is one estimator instance (est: its constructor parameters    *)
(* and the attributes fit has set on it) and the call in progress (call:   *)
(* the method, the dataframe passed in, and what it gave back: a dataframe *)
(* or an exception).  A dataframe is a list of column names and a list of  *)
(* rows; a row carries its index label and one value per column.           *)
(***************************************************************************)
EXTENDS Integers, Sequences, FiniteSets, TLC

VARIABLES est, call, fit_completed

vars == <<est, call, fit_completed>>

(***************************************************************************)
(* Bounds of the model.                                                    *)
(***************************************************************************)
\* rows of a dataframe passed to transform, return_na_data, inverse_transform
MaxRows == 2

\* rows of a training set passed to fit
MaxFitRows == 3

\* the largest value of OneHotEncoder's top_categories
MaxTop == 2

\* the missing value (None / NaN) and a value that is present
NA == "NA"
DMDValues == {NA, "v"}

\* the categories of the categorical columns
Categories == {"x", "y"}

\* the categories of a training column with up to three of them
MoreCategories == Categories \cup {"z"}

\* the values of the numerical columns
Numbers == {-1, 2}

\* the values of a training column of DropHighPSIFeatures with up to three
\* of them
MoreNumbers == Numbers \cup {5}

\* the column lists of the dataframes
ColumnLists == {<<"a">>, <<"a", "b">>}

\* the values of the constructor parameter `variables` (<<>> is None)
VariableLists == {<<>>, <<"a">>, <<"b">>, <<"a", "b">>}

(***************************************************************************)
(* Dataframes.                                                             *)
(***************************************************************************)
Range(s) == {s[i] : i \in DOMAIN s}

DataFrame(cols, rows) == [cols |-> cols, rows |-> rows]

EmptyFrame == DataFrame(<<>>, <<>>)

\* the dataframes with the columns `cols`, 1 to n rows, values in `values`,
\* and the default index 1..k
Frames(cols, values, n) ==
    { DataFrame(cols, [i \in DOMAIN f |-> [lab |-> i, vals |-> f[i]]]) :
        f \in UNION { [1..k -> [Range(cols) -> values]] : k \in 1..n } }

FramesOf(values, n) == UNION { Frames(cols, values, n) : cols \in ColumnLists }

\* HasNull with .all() in place of .sum() > 0
HasNullOnly(X, var) == \A i \in DOMAIN X.rows : X.rows[i].vals[var] = NA

\* X[var].isnull().sum() > 0
HasNull(X, var) == \E i \in DOMAIN X.rows : X.rows[i].vals[var] = NA

\* the rows of X at the positions where keep holds, in order
RECURSIVE FilterRows(_, _, _)
FilterRows(rows, keep, i) ==
    IF i > Len(rows) THEN <<>>
    ELSE (IF keep[rows[i]] THEN <<rows[i]>> ELSE <<>>) \o FilterRows(rows, keep, i + 1)

\* the number of variables of `variables` for which the row lacks data
RECURSIVE CountNull(_, _, _)
CountNull(row, variables, i) ==
    IF i > Len(variables) THEN 0
    ELSE (IF row.vals[variables[i]] = NA THEN 1 ELSE 0) + CountNull(row, variables, i + 1)

CountNotNull(row, variables) == Len(variables) - CountNull(row, variables, 1)

\* whether X lacks one of the columns named: X[variables] raises KeyError
MissingColumn(X, variables) ==
    \E i \in DOMAIN variables : variables[i] \notin Range(X.cols)

(***************************************************************************)
(* The estimator object.  attrs is the set of attributes fit has set so    *)
(* far (the names ending in an underscore); the value of an attribute not  *)
(* in attrs is a placeholder.                                              *)
(***************************************************************************)
NoThreshold == [none |-> TRUE, num |-> 0, den |-> 1]

\* threshold as a fraction num / den with 0 < num / den <= 1
Thresholds == {[none |-> FALSE, num |-> 1, den |-> 2], [none |-> FALSE, num |-> 1, den |-> 1]}

NoTop == [none |-> TRUE, n |-> 0]

TopCategories == {NoTop} \cup {[none |-> FALSE, n |-> n] : n \in 0..MaxTop}

\* the parameter C of LogCpTransformer: "auto", a number, or a dictionary
\* (its keys in their order, and the constant of each)
Auto == [kind |-> "auto", num |-> 0, keys |-> <<>>, map |-> <<>>]

Number(n) == [kind |-> "num", num |-> n, keys |-> <<>>, map |-> <<>>]

Dict(keys, map) == [kind |-> "dict", num |-> 0, keys |-> keys, map |-> map]

CValues ==
    {Auto, Number(1), Number(2),
     Dict(<<"a">>, [c \in {"a"} |-> 1]),
     Dict(<<"b">>, [c \in {"b"} |-> 2]),
     Dict(<<"a", "b">>, [c \in {"a", "b"} |-> IF c = "a" THEN 2 ELSE 1])}

Unfitted(kind) ==
    [kind |-> kind, variables |-> <<>>,
     missing_only |-> TRUE, threshold |-> NoThreshold,
     top_categories |-> NoTop, drop_last |-> FALSE, drop_last_binary |-> FALSE,
     encoding_method |-> "count", base |-> "e", C |-> Auto, regression |-> TRUE,
     attrs |-> {}, variables_ |-> <<>>, n_features_in_ |-> 0,
     encoder_dict_ |-> <<>>, variables_binary_ |-> <<>>, C_ |-> Auto,
     binner_dict_ |-> <<>>, scores_dict_ |-> <<>>,
     split_frac |-> [num |-> 1, den |-> 2], bins |-> 2, switch_basis |-> FALSE,
     min_pct_empty_buckets |-> [num |-> 1, den |-> 1000],
     psi |-> <<>>, features_to_drop_ |-> <<>>]

\* DropMissingData.__init__
DropMissingData(missing_only, threshold, variables) ==
    [Unfitted("DropMissingData") EXCEPT
        !.missing_only = missing_only, !.threshold = threshold, !.variables = variables]

DMDConfigs ==
    { DropMissingData(m, t, v) :
        m \in BOOLEAN, t \in {NoThreshold} \cup Thresholds, v \in VariableLists }

\* OneHotEncoder.__init__
OneHotEncoder(top_categories, drop_last, drop_last_binary, variables) ==
    [Unfitted("OneHotEncoder") EXCEPT
        !.top_categories = top_categories, !.drop_last = drop_last,
        !.drop_last_binary = drop_last_binary, !.variables = variables]

OHEConfigs ==
    { OneHotEncoder(t, d, b, v) :
        t \in TopCategories, d \in BOOLEAN, b \in BOOLEAN, v \in VariableLists }

\* CountFrequencyEncoder.__init__
CountFrequencyEncoder(encoding_method, variables) ==
    [Unfitted("CountFrequencyEncoder") EXCEPT
        !.encoding_method = encoding_method, !.variables = variables]

CFEConfigs ==
    { CountFrequencyEncoder(m, v) : m \in {"count", "frequency"}, v \in VariableLists }

\* LogTransformer.__init__
LogTransformer(variables, base) ==
    [Unfitted("LogTransformer") EXCEPT !.variables = variables, !.base = base]

LogConfigs == { LogTransformer(v, b) : v \in VariableLists, b \in {"e", "10"} }

\* LogCpTransformer.__init__
LogCpTransformer(variables, base, C) ==
    [Unfitted("LogCpTransformer") EXCEPT !.variables = variables, !.base = base, !.C = C]

LogCpConfigs ==
    { LogCpTransformer(v, b, c) : v \in VariableLists, b \in {"e", "10"}, c \in CValues }

\* DecisionTreeDiscretiser.__init__
DecisionTreeDiscretiser(variables, regression) ==
    [Unfitted("DecisionTreeDiscretiser") EXCEPT
        !.variables = variables, !.regression = regression]

DTDConfigs == { DecisionTreeDiscretiser(v, r) : v \in VariableLists, r \in BOOLEAN }

\* what a method call gives back: the estimator after it, the dataframe
\* returned, and the exception raised ("" when the call returns)
Outcome(e, out, exc) == [est |-> e, out |-> out, exc |-> exc]

\* _check_transform_input_and_state and the base classes' transform:
\* check_is_fitted(self), which looks for an attribute ending in an
\* underscore, then the number of columns of X against n_features_in_
CheckTransformInputAndState(e, X) ==
    IF e.attrs = {} THEN "NotFittedError"
    ELSE IF "n_features_in_" \notin e.attrs THEN "AttributeError"
    ELSE IF Len(X.cols) # e.n_features_in_ THEN "ValueError"
    ELSE ""

(***************************************************************************)
(* DropMissingData                                                         *)
(***************************************************************************)
\* DropMissingData.fit
DMDFit(e, X) ==
    LET all == X.cols
        withNull(vs) == SelectSeq(vs, LAMBDA var : HasNull(X, var))
        done(vs) == Outcome([e EXCEPT !.variables_ = vs,
                                      !.n_features_in_ = Len(X.cols),
                                      !.attrs = {"variables_", "n_features_in_"}],
                            EmptyFrame, "")
    IN  IF ~e.threshold.none
        THEN IF e.variables = <<>> THEN done(all) ELSE done(e.variables)
        ELSE IF e.missing_only
             THEN IF e.variables = <<>> THEN done(withNull(all))
                  ELSE IF MissingColumn(X, e.variables)
                       THEN Outcome(e, EmptyFrame, "KeyError")
                       ELSE done(withNull(e.variables))
             ELSE IF e.variables = <<>> THEN done(all) ELSE done(e.variables)

\* DropNaThresh keeping only the rows with more than thresh values
DropNaThreshStrict(X, num, den, subset) ==
    DataFrame(X.cols,
              FilterRows(X.rows,
                         [r \in Range(X.rows) |-> CountNotNull(r, subset) * den > num], 1))

\* X.dropna(thresh=thresh, subset=subset, axis=0): keep the rows with at least
\* thresh = num / den non-missing values among subset
DropNaThresh(X, num, den, subset) ==
    DataFrame(X.cols,
              FilterRows(X.rows,
                         [r \in Range(X.rows) |-> CountNotNull(r, subset) * den >= num], 1))

\* DropNaAny emptying the dataframe as soon as one row has a missing value
DropNaAnyOfFrame(X, subset) ==
    DataFrame(X.cols,
              FilterRows(X.rows,
                         [r \in Range(X.rows) |->
                             \A i \in DOMAIN X.rows :
                                 CountNull(X.rows[i], subset, 1) = 0], 1))

\* X.dropna(axis=0, how="any", subset=subset)
DropNaAny(X, subset) ==
    DataFrame(X.cols,
              FilterRows(X.rows, [r \in Range(X.rows) |-> CountNull(r, subset, 1) = 0], 1))

\* DropMissingData.transform
DMDTransform(e, X) ==
    LET chk == CheckTransformInputAndState(e, X)
    IN  IF chk # "" THEN Outcome(e, EmptyFrame, chk)
        ELSE IF MissingColumn(X, e.variables_)
        THEN Outcome(e, EmptyFrame, "KeyError")
        ELSE IF ~e.threshold.none
        THEN Outcome(e, DropNaThresh(X, Len(e.variables_) * e.threshold.num,
                                     e.threshold.den, e.variables_), "")
        ELSE Outcome(e, DropNaAny(X, e.variables_), "")

\* X.loc[labels, :]: for each label in turn, the rows of X that carry it
RECURSIVE Loc(_, _, _)
Loc(X, labels, i) ==
    IF i > Len(labels) THEN <<>>
    ELSE FilterRows(X.rows, [r \in Range(X.rows) |-> r.lab = labels[i]], 1)
         \o Loc(X, labels, i + 1)

\* the index of idx[idx]: the labels of the rows where flag holds
FlaggedLabels(X, flag) ==
    LET rows == FilterRows(X.rows, flag, 1)
    IN  [i \in DOMAIN rows |-> rows[i].lab]

\* DropMissingData.return_na_data
DMDReturnNaData(e, X) ==
    LET chk == CheckTransformInputAndState(e, X)
        n == Len(e.variables_)
        \* pd.isnull(X[variables_]).mean(axis=1) >= threshold
        meanFlag == [r \in Range(X.rows) |->
                        n > 0 /\ CountNull(r, e.variables_, 1) * e.threshold.den
                                    >= e.threshold.num * n]
        \* pd.isnull(X[variables_]).any(1)
        anyFlag == [r \in Range(X.rows) |-> CountNull(r, e.variables_, 1) > 0]
    IN  IF chk # "" THEN Outcome(e, EmptyFrame, chk)
        ELSE IF MissingColumn(X, e.variables_)
        THEN Outcome(e, EmptyFrame, "KeyError")
        ELSE IF ~e.threshold.none
        THEN Outcome(e, DataFrame(X.cols, Loc(X, FlaggedLabels(X, meanFlag), 1)), "")
        ELSE Outcome(e, DataFrame(X.cols, Loc(X, FlaggedLabels(X, anyFlag), 1)), "")

(***************************************************************************)
(* OneHotEncoder                                                           *)
(***************************************************************************)
\* X[var].unique(): the distinct values of the column, by first appearance
RECURSIVE Unique(_, _, _)
Unique(X, var, i) ==
    IF i = 0 THEN <<>>
    ELSE LET before == Unique(X, var, i - 1)
             v == X.rows[i].vals[var]
         IN  IF v \in Range(before) THEN before ELSE Append(before, v)

\* X[var].value_counts()[category]
ValueCount(X, var, category) ==
    Cardinality({i \in DOMAIN X.rows : X.rows[i].vals[var] = category})

\* the orders of the set S
Orders(S) ==
    {p \in [1..Cardinality(S) -> S] : \A i, j \in DOMAIN p : i # j => p[i] # p[j]}

\* TopCategoriesOf with the sort ascending
TopCategoriesAscending(X, var, n) ==
    LET cats == Range(Unique(X, var, Len(X.rows)))
        sorted == {p \in Orders(cats) :
                      \A i, j \in DOMAIN p :
                          i < j => ValueCount(X, var, p[i]) <= ValueCount(X, var, p[j])}
        m == IF n < Cardinality(cats) THEN n ELSE Cardinality(cats)
    IN  {SubSeq(p, 1, m) : p \in sorted}

\* X[var].value_counts().sort_values(ascending=False).head(n).index: the sort
\* is not stable, so equal counts come in any order
TopCategoriesOf(X, var, n) ==
    LET cats == Range(Unique(X, var, Len(X.rows)))
        sorted == {p \in Orders(cats) :
                      \A i, j \in DOMAIN p :
                          i < j => ValueCount(X, var, p[i]) >= ValueCount(X, var, p[j])}
        m == IF n < Cardinality(cats) THEN n ELSE Cardinality(cats)
    IN  {SubSeq(p, 1, m) : p \in sorted}

\* BaseCategoricalTransformer._check_fit_input_and_variables: the variables
\* to encode are the categorical columns of X, or the list `variables`,
\* checked against X
FindOrCheckVariables(X, variables) ==
    IF variables = <<>> THEN [vs |-> X.cols, exc |-> ""]
    ELSE IF MissingColumn(X, variables) THEN [vs |-> <<>>, exc |-> "KeyError"]
    ELSE [vs |-> variables, exc |-> ""]

\* OHECategories with drop_last leaving out the first category, not the last
OHECategoriesDroppingFirst(e, X, var) ==
    LET unique == Unique(X, var, Len(X.rows))
    IN  IF ~e.top_categories.none /\ e.top_categories.n # 0
        THEN TopCategoriesOf(X, var, e.top_categories.n)
        ELSE IF e.drop_last
        THEN {SubSeq(unique, 2, Len(unique))}
        ELSE {unique}

\* the categories OneHotEncoder.fit learns for var before drop_last_binary
\* is applied: the choices the sort leaves open
OHECategories(e, X, var) ==
    LET unique == Unique(X, var, Len(X.rows))
    IN  IF ~e.top_categories.none /\ e.top_categories.n # 0
        THEN TopCategoriesOf(X, var, e.top_categories.n)
        ELSE IF e.drop_last
        THEN {SubSeq(unique, 1, Len(unique) - 1)}
        ELSE {unique}

\* IsBinary counting the variables with one category as binary too
IsBinaryOrConstant(X, var) == Len(Unique(X, var, Len(X.rows))) <= 2

\* X[var].nunique() == 2
IsBinary(X, var) == Len(Unique(X, var, Len(X.rows))) = 2

\* the categories OneHotEncoder.fit leaves in encoder_dict_[var]
OHELearned(e, X, var) ==
    IF e.drop_last_binary /\ IsBinary(X, var)
    THEN {<<Unique(X, var, Len(X.rows))[1]>>}
    ELSE OHECategories(e, X, var)

\* OneHotEncoder.fit: the outcomes it may have
OHEFit(e, X) ==
    LET sel == FindOrCheckVariables(X, e.variables)
        vs == sel.vs
        dicts == {d \in [Range(vs) -> UNION {OHELearned(e, X, v) : v \in Range(vs)}] :
                     \A v \in Range(vs) : d[v] \in OHELearned(e, X, v)}
    IN  IF sel.exc # "" THEN {Outcome(e, EmptyFrame, sel.exc)}
        ELSE {Outcome([e EXCEPT !.variables_ = vs,
                                !.encoder_dict_ = d,
                                !.variables_binary_ =
                                    SelectSeq(vs, LAMBDA var : IsBinary(X, var)),
                                !.n_features_in_ = Len(X.cols),
                                !.attrs = {"variables_", "encoder_dict_",
                                           "variables_binary_", "n_features_in_"}],
                      EmptyFrame, "") : d \in dicts}

\* X[name] = values: a new column goes last, an existing one is overwritten
SetColumn(X, name, value) ==
    DataFrame(IF name \in Range(X.cols) THEN X.cols ELSE Append(X.cols, name),
              [i \in DOMAIN X.rows |->
                  [X.rows[i] EXCEPT !.vals =
                      [c \in DOMAIN X.rows[i].vals \cup {name} |->
                          IF c = name THEN value[X.rows[i]] ELSE X.rows[i].vals[c]]]])

\* X.drop(labels=labels, axis=1)
DropColumns(X, labels) ==
    DataFrame(SelectSeq(X.cols, LAMBDA c : c \notin Range(labels)),
              [i \in DOMAIN X.rows |->
                  [X.rows[i] EXCEPT !.vals =
                      [c \in DOMAIN X.rows[i].vals \ Range(labels) |->
                          X.rows[i].vals[c]]]])

\* str(feature) + "_" + str(category)
DummyName(feature, category) == feature \o "_" \o category

\* OHEEncodeFeature with the 1 and the 0 of np.where exchanged
RECURSIVE OHEEncodeFeatureInverted(_, _, _, _)
OHEEncodeFeatureInverted(X, feature, categories, j) ==
    IF j > Len(categories) THEN X
    ELSE OHEEncodeFeatureInverted(
             SetColumn(X, DummyName(feature, categories[j]),
                       [r \in Range(X.rows) |->
                           IF r.vals[feature] = categories[j] THEN 0 ELSE 1]),
             feature, categories, j + 1)

\* the inner loop of OneHotEncoder.transform: one binary column per category
RECURSIVE OHEEncodeFeature(_, _, _, _)
OHEEncodeFeature(X, feature, categories, j) ==
    IF j > Len(categories) THEN X
    ELSE OHEEncodeFeature(
             SetColumn(X, DummyName(feature, categories[j]),
                       [r \in Range(X.rows) |->
                           IF r.vals[feature] = categories[j] THEN 1 ELSE 0]),
             feature, categories, j + 1)

\* the outer loop of OneHotEncoder.transform
RECURSIVE OHEEncode(_, _, _)
OHEEncode(e, X, i) ==
    IF i > Len(e.variables_) THEN X
    ELSE OHEEncode(e,
                   OHEEncodeFeature(X, e.variables_[i],
                                    e.encoder_dict_[e.variables_[i]], 1),
                   i + 1)

\* OHETransform dropping the encoded variables from variables_ as well
OHETransformForgetting(e, X) ==
    LET chk == CheckTransformInputAndState(e, X)
    IN  IF chk # "" THEN Outcome(e, EmptyFrame, chk)
        ELSE IF MissingColumn(X, e.variables_) THEN Outcome(e, EmptyFrame, "KeyError")
        ELSE Outcome([e EXCEPT !.variables_ = <<>>],
                     DropColumns(OHEEncode(e, X, 1), e.variables_), "")

\* OneHotEncoder.transform
OHETransform(e, X) ==
    LET chk == CheckTransformInputAndState(e, X)
    IN  IF chk # "" THEN Outcome(e, EmptyFrame, chk)
        ELSE IF MissingColumn(X, e.variables_) THEN Outcome(e, EmptyFrame, "KeyError")
        ELSE Outcome(e, DropColumns(OHEEncode(e, X, 1), e.variables_), "")

\* OneHotEncoder.inverse_transform: returns self, whatever the state
OHEInverseTransform(e, X) == Outcome(e, EmptyFrame, "")

(***************************************************************************)
(* CountFrequencyEncoder                                                   *)
(***************************************************************************)
\* X[var].value_counts().to_dict(), or (X[var].value_counts() / n_obs).to_dict():
\* a count c is the fraction c / 1, a frequency the fraction c / n_obs
CFEMapping(e, X, var) ==
    LET cats == Range(Unique(X, var, Len(X.rows)))
        n_obs == IF e.encoding_method = "count" THEN 1 ELSE Len(X.rows)
    IN  [c \in cats |-> <<ValueCount(X, var, c), n_obs>>]

\* CountFrequencyEncoder.fit
CFEFit(e, X) ==
    LET sel == FindOrCheckVariables(X, e.variables)
    IN  IF sel.exc # "" THEN Outcome(e, EmptyFrame, sel.exc)
        ELSE Outcome([e EXCEPT !.variables_ = sel.vs,
                               !.encoder_dict_ =
                                   [var \in Range(sel.vs) |-> CFEMapping(e, X, var)],
                               !.n_features_in_ = Len(X.cols),
                               !.attrs = {"variables_", "encoder_dict_",
                                          "n_features_in_"}],
                     EmptyFrame, "")

\* X[feature] = X[feature].map(encoder_dict_[feature]), one feature after the
\* other; a category the dictionary lacks becomes NaN
RECURSIVE CFEEncode(_, _, _)
CFEEncode(e, X, i) ==
    IF i > Len(e.variables_) THEN X
    ELSE LET feature == e.variables_[i]
             mapping == e.encoder_dict_[feature]
         IN  CFEEncode(e,
                       SetColumn(X, feature,
                                 [r \in Range(X.rows) |->
                                     IF r.vals[feature] \in DOMAIN mapping
                                     THEN mapping[r.vals[feature]]
                                     ELSE <<0, 0>>]),
                       i + 1)

\* CountFrequencyEncoder.transform (BaseCategorical.transform)
CFETransform(e, X) ==
    LET chk == CheckTransformInputAndState(e, X)
    IN  IF chk # "" THEN Outcome(e, EmptyFrame, chk)
        ELSE IF MissingColumn(X, e.variables_) THEN Outcome(e, EmptyFrame, "KeyError")
        ELSE Outcome(e, CFEEncode(e, X, 1), "")

(***************************************************************************)
(* LogTransformer and LogCpTransformer.  A logarithm is kept as a term:    *)
(* Log(base, x) for log_base(x), Exp(base, x, c) for base^x - c.           *)
(***************************************************************************)
Log(base, x) == [fn |-> "log", base |-> base, arg |-> x, minus |-> 0]

Exp(base, x, c) == [fn |-> "exp", base |-> base, arg |-> x, minus |-> c]

\* the constant that X + C adds to the column var
ConstantOf(C, var) == IF C.kind = "dict" THEN C.map[var] ELSE C.num

\* (X[variables] + C <= 0).any().any()
NotPositive(X, variables, C) ==
    \E i \in DOMAIN X.rows : \E j \in DOMAIN variables :
        X.rows[i].vals[variables[j]] + ConstantOf(C, variables[j]) <= 0

\* X[var]: the values of a column
Column(X, var) == { X.rows[i].vals[var] : i \in DOMAIN X.rows }

\* X.loc[:, variables] = f(X.loc[:, variables]), column by column
RECURSIVE MapColumns(_, _, _, _)
MapColumns(X, variables, f, j) ==
    IF j > Len(variables) THEN X
    ELSE MapColumns(SetColumn(X, variables[j],
                              [r \in Range(X.rows) |-> f[variables[j]][r.vals[variables[j]]]]),
                    variables, f, j + 1)

\* LogTransformer.fit
LogFit(e, X) ==
    LET sel == FindOrCheckVariables(X, e.variables)
        selected == [e EXCEPT !.variables_ = sel.vs,
                              !.attrs = e.attrs \cup {"variables_"}]
    IN  IF sel.exc # "" THEN Outcome(e, EmptyFrame, sel.exc)
        ELSE IF NotPositive(X, sel.vs, Number(0))
        THEN Outcome(selected, EmptyFrame, "ValueError")
        ELSE Outcome([selected EXCEPT !.n_features_in_ = Len(X.cols),
                                      !.attrs = selected.attrs \cup {"n_features_in_"}],
                     EmptyFrame, "")

\* LogTransformer.transform
LogTransform(e, X) ==
    LET chk == CheckTransformInputAndState(e, X)
    IN  IF chk # "" THEN Outcome(e, EmptyFrame, chk)
        ELSE IF MissingColumn(X, e.variables_) THEN Outcome(e, EmptyFrame, "KeyError")
        ELSE IF NotPositive(X, e.variables_, Number(0))
        THEN Outcome(e, EmptyFrame, "ValueError")
        ELSE Outcome(e, MapColumns(X, e.variables_,
                                   [var \in Range(e.variables_) |->
                                       [x \in Column(X, var) |-> Log(e.base, x)]], 1), "")

\* LogTransformer.inverse_transform
LogInverseTransform(e, X) ==
    LET chk == CheckTransformInputAndState(e, X)
    IN  IF chk # "" THEN Outcome(e, EmptyFrame, chk)
        ELSE IF MissingColumn(X, e.variables_) THEN Outcome(e, EmptyFrame, "KeyError")
        ELSE Outcome(e, MapColumns(X, e.variables_,
                                   [var \in Range(e.variables_) |->
                                       [x \in Column(X, var) |-> Exp(e.base, x, 0)]], 1), "")

\* min(S) for a set of integers
Min(S) == CHOOSE m \in S : \A x \in S : m <= x

Abs(x) == IF x < 0 THEN 0 - x ELSE x

\* AutoConstants taking the minimum of every column of X
AutoConstantsOfAllColumns(X, variables) ==
    Dict(X.cols,
         [var \in Range(X.cols) |->
             Abs(Min({X.rows[i].vals[var] : i \in DOMAIN X.rows})) + 1])

\* dict(X[variables].min(axis=0).abs() + 1)
AutoConstants(X, variables) ==
    Dict(variables,
         [var \in Range(variables) |->
             Abs(Min({X.rows[i].vals[var] : i \in DOMAIN X.rows})) + 1])

\* LogCpTransformer.fit
LogCpFit(e, X) ==
    LET sel == IF e.C.kind = "dict"
               THEN FindOrCheckVariables(X, e.C.keys)
               ELSE FindOrCheckVariables(X, e.variables)
        C_ == IF e.C.kind = "auto" THEN AutoConstants(X, sel.vs) ELSE e.C
        learned == [e EXCEPT !.variables_ = sel.vs, !.C_ = C_,
                             !.attrs = e.attrs \cup {"variables_", "C_"}]
    IN  IF sel.exc # "" THEN Outcome(e, EmptyFrame, sel.exc)
        ELSE IF NotPositive(X, sel.vs, C_)
        THEN Outcome(learned, EmptyFrame, "ValueError")
        ELSE Outcome([learned EXCEPT !.n_features_in_ = Len(X.cols),
                                     !.attrs = learned.attrs \cup {"n_features_in_"}],
                     EmptyFrame, "")

\* LogCpTransformer.transform
LogCpTransform(e, X) ==
    LET chk == CheckTransformInputAndState(e, X)
    IN  IF chk # "" THEN Outcome(e, EmptyFrame, chk)
        ELSE IF MissingColumn(X, e.variables_) THEN Outcome(e, EmptyFrame, "KeyError")
        ELSE IF NotPositive(X, e.variables_, e.C_)
        THEN Outcome(e, EmptyFrame, "ValueError")
        ELSE Outcome(e, MapColumns(X, e.variables_,
                                   [var \in Range(e.variables_) |->
                                       [x \in Column(X, var) |-> Log(e.base, x + ConstantOf(e.C_, var))]],
                                   1), "")

\* LogCpTransformer.inverse_transform
LogCpInverseTransform(e, X) ==
    LET chk == CheckTransformInputAndState(e, X)
    IN  IF chk # "" THEN Outcome(e, EmptyFrame, chk)
        ELSE IF MissingColumn(X, e.variables_) THEN Outcome(e, EmptyFrame, "KeyError")
        ELSE Outcome(e, MapColumns(X, e.variables_,
                                   [var \in Range(e.variables_) |->
                                       [x \in Column(X, var) |-> Exp(e.base, x, ConstantOf(e.C_, var))]],
                                   1), "")

(***************************************************************************)
(* DecisionTreeDiscretiser.  The tree that the grid search fits to a       *)
(* variable, its score and its predictions are kept as terms.              *)
(***************************************************************************)
\* the kinds of target, as sklearn's type_of_target tells them apart
Targets == {"binary", "continuous"}

\* DecisionTreeDiscretiser.fit
DTDFit(e, X, y) ==
    LET sel == FindOrCheckVariables(X, e.variables)
        tree(var) == [model |-> IF e.regression THEN "DecisionTreeRegressor"
                                ELSE "DecisionTreeClassifier",
                      fitted_to |-> var]
    IN  IF e.regression /\ y = "binary" THEN Outcome(e, EmptyFrame, "ValueError")
        ELSE IF ~e.regression /\ y = "continuous" THEN Outcome(e, EmptyFrame, "ValueError")
        ELSE IF sel.exc # "" THEN Outcome(e, EmptyFrame, sel.exc)
        ELSE Outcome([e EXCEPT !.variables_ = sel.vs,
                               !.binner_dict_ = [var \in Range(sel.vs) |-> tree(var)],
                               !.scores_dict_ =
                                   [var \in Range(sel.vs) |-> [score_of |-> tree(var)]],
                               !.n_features_in_ = Len(X.cols),
                               !.attrs = {"variables_", "binner_dict_", "scores_dict_",
                                          "n_features_in_"}],
                     EmptyFrame, "")

\* DecisionTreeDiscretiser.transform
DTDTransform(e, X) ==
    LET chk == CheckTransformInputAndState(e, X)
        predict == [var \in Range(e.variables_) |->
                       [x \in Column(X, var) |->
                           [fn |-> IF e.regression THEN "predict" ELSE "predict_proba",
                            tree |-> e.binner_dict_[var], arg |-> x]]]
    IN  IF chk # "" THEN Outcome(e, EmptyFrame, chk)
        ELSE IF MissingColumn(X, e.variables_) THEN Outcome(e, EmptyFrame, "KeyError")
        ELSE Outcome(e, MapColumns(X, e.variables_, predict, 1), "")

(***************************************************************************)
(* DropHighPSIFeatures.  The training set is split in two sub-populations  *)
(* at the split_frac quantile of its index; each variable is binned in     *)
(* `bins` equal-width buckets laid over the values of the basis; the PSI   *)
(* of the variable is the sum over the buckets of                          *)
(*     (test_i - basis_i) * ln(test_i / basis_i)                           *)
(* where basis_i and test_i are the shares of the two sub-populations in   *)
(* bucket i, an empty bucket counting for min_pct_empty_buckets.  A PSI is *)
(* kept as the list of its terms: the numerators of basis_i and test_i     *)
(* over the common denominator `den`.                                      *)
(***************************************************************************)
\* DropHighPSIFeatures.__init__, with the default threshold
DropHighPSIFeatures(bins, switch_basis, variables) ==
    [Unfitted("DropHighPSIFeatures") EXCEPT
        !.bins = bins, !.switch_basis = switch_basis, !.variables = variables,
        !.threshold = [none |-> FALSE, num |-> 1, den |-> 4]]

PSIConfigs ==
    { DropHighPSIFeatures(b, s, v) :
        b \in {2, 3}, s \in BOOLEAN, v \in VariableLists }

Max(S) == CHOOSE x \in S : \A y \in S : y <= x

\* the two sub-populations: the rows whose index is at most the split_frac
\* quantile of the index, and the others
SplitDataframe(e, X) ==
    LET n == Len(X.rows)
        cut == 1 + ((n - 1) * e.split_frac.num) \div e.split_frac.den
    IN  [below |-> SubSeq(X.rows, 1, cut), above |-> SubSeq(X.rows, cut + 1, n)]

\* BasisAndTest without the exchange that switch_basis asks for
BasisAndTestUnswitched(e, X) ==
    LET parts == SplitDataframe(e, X)
    IN  [basis |-> parts.below, test |-> parts.above]

\* the sub-population the buckets are laid over, and the one compared to it
BasisAndTest(e, X) ==
    LET parts == SplitDataframe(e, X)
    IN  IF e.switch_basis
        THEN [basis |-> parts.above, test |-> parts.below]
        ELSE [basis |-> parts.below, test |-> parts.above]

\* the values of variable var in the rows
ValuesOf(rows, var) == { rows[i].vals[var] : i \in DOMAIN rows }

\* the bucket of x among `bins` buckets of equal width between the lowest
\* and the highest value of the basis, the outer buckets being open-ended
Bucket(basis, bins, x) ==
    LET mn == Min(basis)
        mx == Max(basis)
    IN  IF x <= mn THEN 1
        ELSE IF x >= mx THEN bins
        ELSE CHOOSE i \in 1..bins :
                 /\ bins * (x - mn) <= i * (mx - mn)
                 /\ bins * (x - mn) > (i - 1) * (mx - mn)

\* the number of rows whose value of var falls in bucket i
BucketCount(rows, var, basis, bins, i) ==
    Cardinality({k \in DOMAIN rows : Bucket(basis, bins, rows[k].vals[var]) = i})

\* AtLeastOne(n) is n, or 1 for an empty sub-population
AtLeastOne(n) == IF n = 0 THEN 1 ELSE n

\* ShareOf without the guard for the empty buckets
ShareOfCount(e, count, n, other) ==
    count * e.min_pct_empty_buckets.den * AtLeastOne(other)

\* the share count / n of a bucket, min_pct_empty_buckets for an empty one,
\* as a numerator over min_pct_empty_buckets.den * n * other
ShareOf(e, count, n, other) ==
    IF count = 0
    THEN e.min_pct_empty_buckets.num * AtLeastOne(n) * AtLeastOne(other)
    ELSE count * e.min_pct_empty_buckets.den * AtLeastOne(other)

\* the PSI of variable var between the two sub-populations
ComputePSI(e, basis, test, var) ==
    LET edges == ValuesOf(basis, var)
        nb == Len(basis)
        nt == Len(test)
    IN  [den |-> e.min_pct_empty_buckets.den * AtLeastOne(nb) * AtLeastOne(nt),
         terms |-> [i \in 1..e.bins |->
                      [basis |-> ShareOf(e, BucketCount(basis, var, edges, e.bins, i),
                                         nb, nt),
                       test |-> ShareOf(e, BucketCount(test, var, edges, e.bins, i),
                                        nt, nb)]]]

\* a PSI all of whose terms are 0: the two shares of every bucket are equal
IsZeroPSI(value) == \A i \in DOMAIN value.terms : value.terms[i].test = value.terms[i].basis

\* the features fit may find to have a PSI above the threshold: never one
\* whose PSI is 0, the threshold being positive; the value of a sum of
\* logarithms is not computed
FeaturesToDrop(e, vs, psi) ==
    { SelectSeq(vs, LAMBDA var : var \in S) :
        S \in SUBSET {var \in Range(vs) : ~IsZeroPSI(psi[var])} }

\* DropHighPSIFeatures.fit: the outcomes it may have
PSIFit(e, X) ==
    LET sel == FindOrCheckVariables(X, e.variables)
        parts == BasisAndTest(e, X)
        psi == [var \in Range(sel.vs) |-> ComputePSI(e, parts.basis, parts.test, var)]
    IN  IF sel.exc # "" THEN {Outcome(e, EmptyFrame, sel.exc)}
        ELSE IF Len(parts.basis) = 0 THEN {Outcome(e, EmptyFrame, "ValueError")}
        ELSE {Outcome([e EXCEPT !.variables_ = sel.vs,
                                !.psi = psi,
                                !.features_to_drop_ = drop,
                                !.n_features_in_ = Len(X.cols),
                                !.attrs = {"variables_", "psi", "features_to_drop_",
                                           "n_features_in_"}],
                      EmptyFrame, "") : drop \in FeaturesToDrop(e, sel.vs, psi)}

\* DropHighPSIFeatures.transform
PSITransform(e, X) ==
    LET chk == CheckTransformInputAndState(e, X)
    IN  IF chk # "" THEN Outcome(e, EmptyFrame, chk)
        ELSE Outcome(e, DropColumns(X, e.features_to_drop_), "")

(***************************************************************************)
(* The methods of an estimator, by its class.                              *)
(***************************************************************************)
Configs ==
    DMDConfigs \cup OHEConfigs \cup CFEConfigs \cup LogConfigs \cup LogCpConfigs
        \cup DTDConfigs \cup PSIConfigs

DMDFitFrames == FramesOf(DMDValues, MaxFitRows)
DMDFrames == FramesOf(DMDValues, MaxRows)
CategoricalFitFrames == FramesOf(Categories, MaxFitRows)
OHEFitFrames == CategoricalFitFrames \cup Frames(<<"a">>, MoreCategories, MaxFitRows)
CategoricalFrames == FramesOf(Categories, MaxRows)
NumericalFitFrames == FramesOf(Numbers, MaxFitRows)
NumericalFrames == FramesOf(Numbers, MaxRows)
PSIFitFrames ==
    FramesOf(Numbers, MaxRows) \cup Frames(<<"a">>, MoreNumbers, MaxFitRows + 1)
\* DropHighPSIFeatures.transform reads the columns of X only: one row will do
PSIFrames == FramesOf(Numbers, 1)

\* the training sets a caller passes to fit
FitFrames(kind) ==
    IF kind = "DropMissingData" THEN DMDFitFrames
    ELSE IF kind = "OneHotEncoder" THEN OHEFitFrames
    ELSE IF kind = "CountFrequencyEncoder" THEN CategoricalFitFrames
    ELSE IF kind = "DropHighPSIFeatures" THEN PSIFitFrames
    ELSE NumericalFitFrames

\* the dataframes a caller passes to the other methods
InputFrames(kind) ==
    IF kind = "DropMissingData" THEN DMDFrames
    ELSE IF kind \in {"OneHotEncoder", "CountFrequencyEncoder"} THEN CategoricalFrames
    ELSE IF kind = "DropHighPSIFeatures" THEN PSIFrames
    ELSE NumericalFrames

\* the targets a caller passes to fit; only DecisionTreeDiscretiser reads y
FitTargets(kind) == IF kind = "DecisionTreeDiscretiser" THEN Targets ELSE {"None"}

\* fit: the outcomes it may have
FitOf(e, X, y) ==
    IF e.kind = "DropMissingData" THEN {DMDFit(e, X)}
    ELSE IF e.kind = "OneHotEncoder" THEN OHEFit(e, X)
    ELSE IF e.kind = "CountFrequencyEncoder" THEN {CFEFit(e, X)}
    ELSE IF e.kind = "LogTransformer" THEN {LogFit(e, X)}
    ELSE IF e.kind = "LogCpTransformer" THEN {LogCpFit(e, X)}
    ELSE IF e.kind = "DropHighPSIFeatures" THEN PSIFit(e, X)
    ELSE {DTDFit(e, X, y)}

TransformOf(e, X) ==
    IF e.kind = "DropMissingData" THEN DMDTransform(e, X)
    ELSE IF e.kind = "OneHotEncoder" THEN OHETransform(e, X)
    ELSE IF e.kind = "CountFrequencyEncoder" THEN CFETransform(e, X)
    ELSE IF e.kind = "LogTransformer" THEN LogTransform(e, X)
    ELSE IF e.kind = "LogCpTransformer" THEN LogCpTransform(e, X)
    ELSE IF e.kind = "DropHighPSIFeatures" THEN PSITransform(e, X)
    ELSE DTDTransform(e, X)

\* the classes whose inverse_transform is modelled
HasInverseTransform(kind) ==
    kind \in {"OneHotEncoder", "LogTransformer", "LogCpTransformer"}

InverseTransformOf(e, X) ==
    IF e.kind = "OneHotEncoder" THEN OHEInverseTransform(e, X)
    ELSE IF e.kind = "LogTransformer" THEN LogInverseTransform(e, X)
    ELSE LogCpInverseTransform(e, X)

(***************************************************************************)
(* The state machine.                                                      *)
(***************************************************************************)
NoCall == [op |-> "none", X |-> EmptyFrame, y |-> "None", out |-> EmptyFrame, exc |-> ""]

Called(op, X, y, o) == [op |-> op, X |-> X, y |-> y, out |-> o.out, exc |-> o.exc]

Init ==
    /\ est = DropMissingData(TRUE, NoThreshold, <<>>)
    /\ call = NoCall
    /\ fit_completed = FALSE

\* a new instance replaces the one held: what the old one learned is gone
Construct ==
    /\ call.op = "none"
    /\ \E e \in Configs : est' = e
    /\ fit_completed' = FALSE
    /\ UNCHANGED call

Fit ==
    /\ call.op = "none"
    /\ \E X \in FitFrames(est.kind), y \in FitTargets(est.kind) :
         \E o \in FitOf(est, X, y) :
             /\ est' = o.est
             /\ call' = Called("fit", X, y, o)
             /\ fit_completed' = (fit_completed \/ o.exc = "")

Transform ==
    /\ call.op = "none"
    /\ \E X \in InputFrames(est.kind) :
         LET o == TransformOf(est, X)
         IN  /\ est' = o.est
             /\ call' = Called("transform", X, "None", o)
    /\ UNCHANGED fit_completed

InverseTransform ==
    /\ call.op = "none"
    /\ HasInverseTransform(est.kind)
    /\ \E X \in InputFrames(est.kind) :
         LET o == InverseTransformOf(est, X)
         IN  /\ est' = o.est
             /\ call' = Called("inverse_transform", X, "None", o)
    /\ UNCHANGED fit_completed

ReturnNaData ==
    /\ call.op = "none"
    /\ est.kind = "DropMissingData"
    /\ \E X \in InputFrames(est.kind) :
         LET o == DMDReturnNaData(est, X)
         IN  /\ est' = o.est
             /\ call' = Called("return_na_data", X, "None", o)
    /\ UNCHANGED fit_completed

\* the call is over: the caller has taken what it gave back
Return ==
    /\ call.op # "none"
    /\ call' = NoCall
    /\ UNCHANGED <<est, fit_completed>>

Next == Construct \/ Fit \/ Transform \/ InverseTransform \/ ReturnNaData \/ Return

Spec == Init /\ [][Next]_vars


(***************************************************************************)
(* The claims about every transformer.                                     *)
(***************************************************************************)
AfterFit == call.op = "fit" /\ call.exc = ""

LearnedState(e) ==
    <<e.attrs, e.variables_, e.n_features_in_, e.encoder_dict_, e.variables_binary_,
      e.C_, e.binner_dict_, e.scores_dict_, e.psi, e.features_to_drop_>>

\* C3: no call of transform, inverse_transform or return_na_data changes
\* variables_, n_features_in_ or a learned mapping: they stay as fit left them.
C3_LearnedStateImmutable ==
    [][call'.op \in {"transform", "inverse_transform", "return_na_data"}
          => LearnedState(est') = LearnedState(est)]_vars

\* an encoder that has learned its categories has transformed a dataframe
C3_Witness ==
    /\ est.kind = "OneHotEncoder" /\ fit_completed
    /\ call.op = "transform" /\ call.exc = ""
    /\ est.variables_ = <<"a", "b">> /\ Len(est.encoder_dict_["a"]) = 2

\* C4: after every successful fit(X), variables_ is a subset of the columns
\* of X.
C4_VariablesAreColumns ==
    AfterFit => Range(est.variables_) \subseteq Range(call.X.cols)

\* C5 as first stated: after every successful fit the keys of each learned
\* dictionary are the variables of variables_, C_ being a dictionary for
\* every value of C.
C5_DictionaryKeysAreVariables ==
    AfterFit =>
        /\ est.kind \in {"OneHotEncoder", "CountFrequencyEncoder"}
               => DOMAIN est.encoder_dict_ = Range(est.variables_)
        /\ est.kind = "DecisionTreeDiscretiser"
               => /\ DOMAIN est.binner_dict_ = Range(est.variables_)
                  /\ DOMAIN est.scores_dict_ = Range(est.variables_)
        /\ est.kind = "LogCpTransformer"
               => /\ est.C_.kind = "dict"
                  /\ DOMAIN est.C_.map = Range(est.variables_)

\* C5, amended: after every successful fit the keys of encoder_dict_,
\* binner_dict_ and scores_dict_ are the variables of variables_, and so are
\* the keys of C_ when C is "auto" or a dictionary; when C is a number, C_
\* is that number and no dictionary.
C5_DictionaryKeysAreVariablesUnlessNumber ==
    AfterFit =>
        /\ est.kind \in {"OneHotEncoder", "CountFrequencyEncoder"}
               => DOMAIN est.encoder_dict_ = Range(est.variables_)
        /\ est.kind = "DecisionTreeDiscretiser"
               => /\ DOMAIN est.binner_dict_ = Range(est.variables_)
                  /\ DOMAIN est.scores_dict_ = Range(est.variables_)
        /\ est.kind = "LogCpTransformer"
               => IF est.C.kind = "num"
                  THEN est.C_ = est.C
                  ELSE /\ est.C_.kind = "dict"
                       /\ DOMAIN est.C_.map = Range(est.variables_)

\* fit with C = "auto" has learned the constant of one of two columns
C5_Witness ==
    /\ AfterFit /\ est.kind = "LogCpTransformer" /\ est.C.kind = "auto"
    /\ est.variables_ = <<"b">> /\ est.C_.map["b"] = 3

\* the classes whose transform C6 speaks of
RowWise == {"DropMissingData", "OneHotEncoder", "LogTransformer", "LogCpTransformer"}

\* transform of the one row i of the dataframe passed in
Alone(i) == TransformOf(est, DataFrame(call.X.cols, <<call.X.rows[i]>>))

\* what the call in progress gave back for row i
OutputOf(i) ==
    FilterRows(call.out.rows,
               [r \in Range(call.out.rows) |-> r.lab = call.X.rows[i].lab], 1)

\* a second transform of the same dataframe gives what the first one gave
C6_Deterministic ==
    LET again == TransformOf(est, call.X)
    IN  again.out = call.out /\ again.exc = call.exc

\* C6 as first stated: transform is deterministic, and what happens to a row
\* (the exception, or its output) is what happens when the row is
\* transformed alone.
C6_RowIndependent ==
    (call.op = "transform" /\ est.kind \in RowWise) =>
        /\ C6_Deterministic
        /\ \A i \in DOMAIN call.X.rows :
               /\ Alone(i).exc = call.exc
               /\ call.exc = "" => /\ Alone(i).out.cols = call.out.cols
                                   /\ Alone(i).out.rows = OutputOf(i)

\* C6, amended: transform is deterministic; when it returns, the output of
\* each row is what the row gives when transformed alone; when it raises,
\* every row raises the same exception when transformed alone, except that
\* LogTransformer and LogCpTransformer raise ValueError for the whole
\* dataframe as soon as one row has a value that is not positive.
C6_RowIndependentWhenItReturns ==
    (call.op = "transform" /\ est.kind \in RowWise) =>
        /\ C6_Deterministic
        /\ call.exc = "" =>
               \A i \in DOMAIN call.X.rows :
                   /\ Alone(i).exc = ""
                   /\ Alone(i).out.cols = call.out.cols
                   /\ Alone(i).out.rows = OutputOf(i)
        /\ call.exc # "" =>
               \/ \A i \in DOMAIN call.X.rows : Alone(i).exc = call.exc
               \/ /\ call.exc = "ValueError"
                  /\ \E i \in DOMAIN call.X.rows : Alone(i).exc = "ValueError"

\* DropMissingData has dropped the first of two rows and kept the second
C6_Witness ==
    /\ est.kind = "DropMissingData" /\ call.op = "transform" /\ call.exc = ""
    /\ Len(call.X.rows) = 2 /\ OutputOf(1) = <<>> /\ OutputOf(2) = <<call.X.rows[2]>>

(***************************************************************************)
(* The claims about DropMissingData.                                       *)
(***************************************************************************)
IsDMD == est.kind = "DropMissingData"

\* the row has a value in variable var
HasData(row, var) == row.vals[var] # NA

\* whether rows holds row (labels tell rows apart)
InRows(rows, row) == \E j \in DOMAIN rows : rows[j] = row

\* C1: return_na_data(X) returns exactly the rows of X that transform(X)
\* removes: every row of X is in exactly one of the two results, and the two
\* results together have as many rows as X.
C1_ReturnNaDataIsWhatTransformRemoves ==
    (IsDMD /\ call.op = "return_na_data" /\ call.exc = "") =>
        LET kept == DMDTransform(est, call.X).out.rows
            returned == call.out.rows
        IN  /\ \A i \in DOMAIN call.X.rows :
                   InRows(kept, call.X.rows[i]) # InRows(returned, call.X.rows[i])
            /\ Len(kept) + Len(returned) = Len(call.X.rows)

\* the rule of C7 for keeping a row
C7_Keeps(e, row) ==
    IF e.threshold.none
    THEN \A i \in DOMAIN e.variables_ : HasData(row, e.variables_[i])
    ELSE Cardinality({i \in DOMAIN e.variables_ : HasData(row, e.variables_[i])})
             * e.threshold.den >= e.threshold.num * Len(e.variables_)

C8_Candidates == IF est.variables = <<>> THEN call.X.cols ELSE est.variables

\* C8: fit sets variables_ to the candidate variables with at least one
\* missing value in the training set when threshold is None and missing_only
\* is True, and to all candidate variables otherwise.
C8_FitSelectsVariables ==
    (IsDMD /\ call.op = "fit" /\ call.exc = "") =>
        IF est.threshold.none /\ est.missing_only
        THEN /\ Range(est.variables_) =
                    {v \in Range(C8_Candidates) :
                        \E i \in DOMAIN call.X.rows : call.X.rows[i].vals[v] = NA}
             /\ Len(est.variables_) = Cardinality(Range(est.variables_))
        ELSE est.variables_ = C8_Candidates

\* missing_only dropped a candidate variable that has no missing value
C8_Witness ==
    /\ IsDMD /\ call.op = "fit" /\ call.exc = ""
    /\ est.threshold.none /\ est.missing_only
    /\ est.variables = <<"a", "b">> /\ est.variables_ = <<"b">>

(***************************************************************************)
(* The claims about OneHotEncoder.                                         *)
(***************************************************************************)
IsOHE == est.kind = "OneHotEncoder"

\* C9: transform ignores the categories not seen in fit: the output columns
\* are the input columns that are not encoded and one binary column per
\* learned category, and a row whose value of an encoded variable was not
\* learned has 0 in every binary column of that variable.
C9_UnseenCategoriesAreIgnored ==
    (IsOHE /\ call.op = "transform" /\ call.exc = "") =>
        /\ Range(call.out.cols) =
               (Range(call.X.cols) \ Range(est.variables_))
                   \cup UNION {{DummyName(v, c) : c \in Range(est.encoder_dict_[v])} :
                                  v \in Range(est.variables_)}
        /\ \A i \in DOMAIN call.X.rows : \A v \in Range(est.variables_) :
               call.X.rows[i].vals[v] \notin Range(est.encoder_dict_[v]) =>
                   /\ call.out.rows[i].lab = call.X.rows[i].lab
                   /\ \A c \in Range(est.encoder_dict_[v]) :
                          call.out.rows[i].vals[DummyName(v, c)] = 0

\* a row with a category that fit did not learn has been encoded
C9_Witness ==
    /\ IsOHE /\ call.op = "transform" /\ call.exc = ""
    /\ est.variables_ = <<"a">> /\ est.encoder_dict_["a"] = <<"x">>
    /\ Len(call.X.rows) = 2
    /\ call.X.rows[1].vals["a"] = "y" /\ call.X.rows[2].vals["a"] = "x"

\* the number of rows of the training set with category c in variable v
C10_Count(v, c) ==
    Cardinality({i \in DOMAIN call.X.rows : call.X.rows[i].vals[v] = c})

\* the categories of variable v in the training set
C10_Seen(v) == {call.X.rows[i].vals[v] : i \in DOMAIN call.X.rows}

\* encoder_dict_[v] holds categories of v only, at most n of them, each at
\* least as frequent in the training set as every category of v it leaves out
C10_OnlyTop(v, n) ==
    LET learned == Range(est.encoder_dict_[v])
    IN  /\ learned \subseteq C10_Seen(v)
        /\ Cardinality(learned) <= n
        /\ \A c \in learned : \A d \in C10_Seen(v) \ learned :
               C10_Count(v, c) >= C10_Count(v, d)

\* encoder_dict_[v] lists n categories of v once each, or all of them when
\* there are fewer than n
C10_AsManyAsAsked(v, n) ==
    /\ Len(est.encoder_dict_[v]) = Cardinality(Range(est.encoder_dict_[v]))
    /\ Len(est.encoder_dict_[v]) =
           (IF n < Cardinality(C10_Seen(v)) THEN n ELSE Cardinality(C10_Seen(v)))

\* top_categories is set to one of the values it is documented to take
C10_TopIsSet == ~est.top_categories.none /\ est.top_categories.n >= 1

C11_FirstAt(v, c) ==
    CHOOSE i \in DOMAIN call.X.rows :
        /\ call.X.rows[i].vals[v] = c
        /\ \A j \in 1..(i - 1) : call.X.rows[j].vals[v] # c

\* the category of variable v that appears last for the first time
C11_Last(v) ==
    CHOOSE c \in C10_Seen(v) : \A d \in C10_Seen(v) : C11_FirstAt(v, d) <= C11_FirstAt(v, c)

\* encoder_dict_[v] lists the categories of S once each, by first appearance
C11_Lists(v, S) ==
    LET learned == est.encoder_dict_[v]
    IN  /\ Range(learned) = S
        /\ Len(learned) = Cardinality(S)
        /\ \A i, j \in DOMAIN learned :
               i < j => C11_FirstAt(v, learned[i]) < C11_FirstAt(v, learned[j])

\* the binary columns that transform has made for variable v
C11_Dummies(v) ==
    {c \in Range(call.out.cols) : \E d \in MoreCategories : c = DummyName(v, d)}

\* C11: with top_categories=None and drop_last_binary=False, fit learns for
\* each encoded variable with k training categories all k of them when
\* drop_last=False, and k-1 when drop_last=True: all but the one that
\* appears last; transform makes one binary column for each learned
\* category, so k or k-1 of them.
C11_DropLastLearnsAllButLast ==
    (IsOHE /\ est.top_categories.none /\ ~est.drop_last_binary) =>
        /\ AfterFit =>
               \A v \in Range(est.variables_) :
                   IF est.drop_last
                   THEN /\ C11_Lists(v, C10_Seen(v) \ {C11_Last(v)})
                        /\ Len(est.encoder_dict_[v]) = Cardinality(C10_Seen(v)) - 1
                   ELSE /\ C11_Lists(v, C10_Seen(v))
                        /\ Len(est.encoder_dict_[v]) = Cardinality(C10_Seen(v))
        /\ (call.op = "transform" /\ call.exc = "") =>
               \A v \in Range(est.variables_) :
                   /\ Cardinality(C11_Dummies(v)) = Len(est.encoder_dict_[v])
                   /\ C11_Dummies(v) =
                          {DummyName(v, c) : c \in Range(est.encoder_dict_[v])}

\* of three categories fit has learned the first two with drop_last=True
C11_Witness ==
    /\ IsOHE /\ AfterFit /\ est.top_categories.none
    /\ est.drop_last /\ ~est.drop_last_binary
    /\ est.variables_ = <<"a">> /\ est.encoder_dict_["a"] = <<"y", "z">>
    /\ Len(call.X.rows) = 3 /\ call.X.rows[3].vals["a"] = "x"

\* C12: with drop_last_binary=True, after fit encoder_dict_[var] has length 1
\* for every encoded variable with exactly 2 categories in the training set,
\* whatever top_categories and drop_last are, so that transform makes exactly
\* one binary column for it; and variables_binary_ lists exactly the encoded
\* variables with 2 training categories, whatever drop_last_binary is.
C12_BinaryVariablesGetOneDummy ==
    IsOHE =>
        /\ AfterFit =>
               /\ Range(est.variables_binary_) =
                      {v \in Range(est.variables_) : Cardinality(C10_Seen(v)) = 2}
               /\ est.drop_last_binary =>
                      \A v \in Range(est.variables_) :
                          Cardinality(C10_Seen(v)) = 2 =>
                              /\ Len(est.encoder_dict_[v]) = 1
                              /\ est.encoder_dict_[v][1] \in C10_Seen(v)
        /\ (call.op = "transform" /\ call.exc = "" /\ est.drop_last_binary) =>
               \A v \in Range(est.variables_binary_) :
                   Cardinality(C11_Dummies(v)) = 1

\* fit with drop_last_binary=True and top_categories=2 has learned one
\* category for the binary variable a and one for the constant variable b
C12_Witness ==
    /\ IsOHE /\ AfterFit /\ est.drop_last_binary /\ ~est.drop_last
    /\ est.top_categories = [none |-> FALSE, n |-> 2]
    /\ est.variables_ = <<"a", "b">> /\ est.variables_binary_ = <<"a">>
    /\ Len(est.encoder_dict_["a"]) = 1 /\ Len(est.encoder_dict_["b"]) = 1

IsPSI == est.kind = "DropHighPSIFeatures"

\* the two sub-populations of the training set
C13_Parts == BasisAndTest(est, call.X)

\* the binned distributions of variable v coincide: every bucket holds the
\* same share of the two sub-populations
C13_BinnedDistributionsCoincide(v) ==
    LET basis == C13_Parts.basis
        test == C13_Parts.test
        edges == ValuesOf(basis, v)
    IN  /\ Len(basis) > 0 /\ Len(test) > 0
        /\ \A i \in 1..est.bins :
               BucketCount(basis, v, edges, est.bins, i) * Len(test) =
                   BucketCount(test, v, edges, est.bins, i) * Len(basis)

\* the sign of ln(t / b) for t > 0 and b > 0
C13_SignOfLog(t, b) == IF t > b THEN 1 ELSE IF t < b THEN -1 ELSE 0

\* a PSI is a sum of defined terms (test - basis) * ln(test / basis), each of
\* which is greater than or equal to 0
C13_IsDefinedAndNotNegative(value) ==
    /\ value.den > 0
    /\ \A i \in DOMAIN value.terms :
           LET t == value.terms[i].test
               b == value.terms[i].basis
           IN  t > 0 /\ b > 0 /\ (t - b) * C13_SignOfLog(t, b) >= 0

C14_Exchanged ==
    LET parts == SplitDataframe(est, call.X)
        rows == parts.above \o parts.below
    IN  DataFrame(call.X.cols, [i \in DOMAIN rows |-> [rows[i] EXCEPT !.lab = i]])

\* the values of the rows, without their labels
C14_Values(rows) == [i \in DOMAIN rows |-> rows[i].vals]

\* the exchanged training set is split into (B, A) where the training set is
\* split into (A, B)
C14_SplitIsExchanged ==
    LET parts == SplitDataframe(est, call.X)
        exchanged == SplitDataframe(est, C14_Exchanged)
    IN  /\ C14_Values(exchanged.below) = C14_Values(parts.above)
        /\ C14_Values(exchanged.above) = C14_Values(parts.below)

\* the same transformer with the other value of switch_basis, not fitted
C14_Switched == DropHighPSIFeatures(est.bins, ~est.switch_basis, est.variables)

\* C14: a fit on a dataset split into (A, B) gives every feature the PSI that
\* a fit with the other value of switch_basis, all other parameters being
\* equal, gives it on the dataset split into (B, A).
C14_SwitchBasisExchangesTheRoles ==
    (IsPSI /\ AfterFit /\ C14_SplitIsExchanged) =>
        \A o \in PSIFit(C14_Switched, C14_Exchanged) :
            /\ o.exc = ""
            /\ o.est.variables_ = est.variables_
            /\ \A v \in Range(est.variables_) : o.est.psi[v] = est.psi[v]

\* fit with switch_basis=True has found a PSI that is not 0 on a dataset of
\* two sub-populations of two rows, with different values
C14_Witness ==
    /\ IsPSI /\ AfterFit /\ est.switch_basis /\ C14_SplitIsExchanged
    /\ est.variables_ = <<"a">> /\ Len(call.X.rows) = 4
    /\ call.X.rows[1].vals["a"] = 5 /\ call.X.rows[2].vals["a"] = 5
    /\ call.X.rows[3].vals["a"] = -1 /\ call.X.rows[4].vals["a"] = 2
    /\ ~IsZeroPSI(est.psi["a"])

====
